---- MODULE Spec2Model ----
(***************************************************************************)
(* Model of the dwani proxy servers.                                       *)
(*                                                                         *)
(*   variant = "load_balancer" : src/src/server/load_balancer.py           *)
(*       the pooled load balancer: per-key rate limit, round-robin         *)
(*       selection over the backends marked healthy, forwarding with       *)
(*       failure-triggered demotion, and the background health prober.     *)
(*   variant = "main"          : src/src/server/main.py                    *)
(*       the single-target proxy with the extra /health route.            *)
(*   variant = "latest"        : src/latest/src/server/main.py             *)
(*       the single-target proxy with the longer header denylist; only     *)
(*       the preparation of its outbound call is modelled.                 *)
(*                                                                         *)
(* asyncio runs the handlers and the prober on one event loop: code        *)
(* between two awaits is one atomic step.  The awaits that matter are the  *)
(* outbound calls (client.request, client.get) and asyncio.sleep.          *)
(*                                                                         *)
(* The program state is variant .. hits.  The other variables record what  *)
(* happened (the response of the last step, histories of selections and    *)
(* timeouts); no action reads them.  `observe` says which of them a        *)
(* specification records, so that each specification carries only the      *)
(* history its properties read.                                            *)
(***************************************************************************)
EXTENDS Integers, Sequences, FiniteSets, Bags, TLC

\* ------------------------------------------------------------------ bounds
\* largest pool of backends configured in BACKEND_SERVERS
MaxPool == 3
\* number of client requests that can be in flight at the same time
MaxReq == 2
\* largest number of items in a query string, and of lines in a header list
MaxItems == 2

\* ------------------------------------------------------- program constants
\* RATE_LIMIT default "3/minute" of the load balancer
RATE_LIMIT == 3
\* @limiter.limit("5/minute") of the single-target proxy
PROXY_LIMIT == 5
\* the single TARGET_SERVER of the proxy without a pool
TARGET_SERVER == 0

\* the API keys the clients use; NoKey is an absent (or empty) value
Keys == {"k1", "k2"}
NoKey == ""
\* request paths: "health" is /health, "x" any other path
Paths == {"health", "x"}
Methods == {"GET", "POST"}
\* status codes a backend answers a forwarded request with
Statuses == {200, 301, 404, 500}
\* status codes a backend answers a probe of /health with
ProbeStatuses == {200, 204, 503}
\* the query string of a request is a list of <<key, value>> items, its
\* headers a list of <<name, value>> lines; a key or a name may occur twice
QueryKeys == {"a", "b"}
QueryValues == {"1", "2"}
HeaderNames == {"Host", "host", "Connection", "Accept-Encoding", "User-Agent",
                "Referer", "Content-Type"}
HeaderValues == {"x", "y"}
\* an entry of BACKEND_SERVERS: text is the entry without the white space
\* around it, pad says that there is such white space ("" with pad is " ")
\*   ""          the empty entry
\*   "http://a"  scheme and host
\*   "a.example" no scheme (urlparse: a path)
\*   "http://"   a scheme and no host
EntryTexts == {"", "http://a", "http://b", "a.example", "http://"}
Entries == [pad : BOOLEAN, text : EntryTexts]
\* the lists of at most n items over the pairs K \X V
Lists(K, V, n) == UNION {[1..len -> K \X V] : len \in 0..n}
\* httpx exceptions raised by an outbound call
\*   ConnectTimeout, ReadTimeout : httpx.TimeoutException (a RequestError)
\*   ConnectError                : httpx.RequestError, no timeout
\*   InvalidURL                  : no httpx.RequestError
Exceptions == {"ConnectTimeout", "ReadTimeout", "ConnectError", "InvalidURL"}
\* the outcomes of an outbound call: a response with a status, or an exception
Returned(S) == {[exc |-> "", status |-> st] : st \in S}
Raised == {[exc |-> e, status |-> 0] : e \in Exceptions}

VARIABLES
    variant,          \* which program runs
    process,          \* "import": the module is being loaded; "running";
                      \* "failed": the load raised, the process has not started
    BACKEND_SERVERS_ENV, \* os.getenv("BACKEND_SERVERS") split at the commas: a list
                      \* of entries [pad, text]; <<>> when the variable is unset
    keys,             \* the API keys the clients of this run use
    BACKEND_SERVERS,  \* the configured list of backends (fixed at startup)
    server_health,    \* backend -> BOOLEAN
    healthy_servers,  \* cycle(BACKEND_SERVERS): index of the element next() yields
    hc,               \* the health_check task: [pc, i]
    inflight,         \* bag of the requests awaiting client.request: [target, sent, nsel]
    hits,             \* limiter storage: key -> requests counted in the current window
    request,          \* the inbound request whose outbound call is prepared:
                      \* [query, headers]
    observe,          \* which history this run records
    out,              \* what the last step did: the selection made, the response given
    window,           \* history: per key, admitted? of each request of the current window
    calls,            \* history: selections since startup (mod pool size), while
                      \*          no flag has ever changed
    everChanged,      \* history: some health flag has changed since startup
    selHist,          \* history: positions selected since the last change of a flag
    timedOut,         \* history: backends that timed out since the last selection
    reProbed          \* history: those of timedOut a probe has marked healthy since

vars == <<variant, process, BACKEND_SERVERS_ENV, keys, BACKEND_SERVERS, server_health, healthy_servers, hc, inflight,
          hits, request, observe, out, window, calls, everChanged, selHist, timedOut, reProbed>>

\* what no step of a running program changes
config == <<variant, process, BACKEND_SERVERS_ENV, keys, BACKEND_SERVERS, request, observe>>
selectHistory == <<calls, everChanged, selHist>>
timeoutHistory == <<timedOut, reProbed>>

\* ------------------------------------------------------------------ helpers
Range(s) == {s[i] : i \in 1..Len(s)}
PoolSize == Len(BACKEND_SERVERS)
IsPooled == variant = "load_balancer"
Quota == IF IsPooled THEN RATE_LIMIT ELSE PROXY_LIMIT
InFlight == BagToSet(inflight)

\* kind: "none"          the step gave no response and issued no request
\*       "forwarded"     the handler has issued its outbound call and awaits it
\*       "response"      the backend's response was relayed to the caller
\*       "HTTPException" the handler raised HTTPException(status)
\*       "unhandled"     an exception left the handler: the server answers 500
\*       "static"        the /health handler returned its payload
\*       "probe"         the prober's `await client.get(...)` returned or raised
\* status: the status the caller receives; upstream: the status the backend
\* answered with (-1: it raised); server: the backend selected or called;
\* examined, before: backends examined by the selection, and the cursor before
\* it; changed: the backends whose flag the step changed; after: how the
\* selected backend stands to timedOut and reProbed; nsel, nsent: selections
\* and outbound calls made for the request so far; exc: the exception the
\* outbound call raised; avoided: a backend that timed out, and that no probe
\* has marked healthy since, was there to avoid; key: the request's API key;
\* params, headers: the arguments of the outbound call ("outbound" steps)
NoOut == [kind |-> "none", status |-> 0, upstream |-> 0, exc |-> "", server |-> -1,
          examined |-> 0, before |-> 0, changed |-> {}, after |-> "no",
          avoided |-> FALSE, nsel |-> 0, nsent |-> 0,
          key |-> NoKey, path |-> "x", method |-> "GET",
          params |-> <<>>, headers |-> <<>>]

\* what a run records of a step's result o
\*   "select"  : the steps that called get_next_healthy_server
\*   "forward" : the steps that issued or finished an outbound call
\*   "limiter" : the steps in which a request arrived
\*   "probe"   : the steps in which an outbound call, a probe or a forwarded
\*               request, returned or raised
Observed(o) ==
    IF observe = "select"
    THEN (IF o.examined > 0
          THEN [o EXCEPT !.after = "no", !.avoided = FALSE, !.nsel = 0, !.nsent = 0,
                         !.key = NoKey]
          ELSE NoOut)
    ELSE IF observe = "forward"
    THEN (IF o.nsent > 0
          THEN [o EXCEPT !.server = IF o.kind = "response" THEN -1 ELSE o.server,
                         !.examined = 0, !.before = 0, !.key = NoKey,
                         !.path = "x", !.method = "GET"]
          ELSE NoOut)
    ELSE IF observe = "probe"
    THEN (IF o.upstream # 0
          THEN [o EXCEPT !.examined = 0, !.before = 0, !.after = "no",
                         !.avoided = FALSE, !.nsel = 0, !.nsent = 0, !.key = NoKey]
          ELSE NoOut)
    ELSE (IF o.upstream = 0
          THEN [o EXCEPT !.server = -1, !.examined = 0, !.before = 0, !.after = "no",
                         !.avoided = FALSE, !.nsel = 0, !.nsent = 0]
          ELSE NoOut)

\* httpx exception hierarchy
IsTimeoutException(e) == e \in {"ConnectTimeout", "ReadTimeout"}
IsRequestError(e) == e \in {"ConnectTimeout", "ReadTimeout", "ConnectError"}
IsHTTPStatusError(e) == FALSE

\* mutant: `except httpx.RequestError` stands before `except httpx.TimeoutException`
except_clause_swapped(e) ==
    IF IsRequestError(e) THEN "RequestError"
    ELSE IF IsTimeoutException(e) THEN "TimeoutException"
    ELSE IF IsHTTPStatusError(e) THEN "HTTPStatusError"
    ELSE "uncaught"

\* the first `except` clause of the forwarding handlers that catches e
except_clause(e) ==
    IF IsTimeoutException(e) THEN "TimeoutException"
    ELSE IF IsHTTPStatusError(e) THEN "HTTPStatusError"
    ELSE IF IsRequestError(e) THEN "RequestError"
    ELSE "uncaught"

\* the last n elements of a sequence
LastN(s, n) == IF Len(s) <= n THEN s ELSE SubSeq(s, Len(s) - n + 1, Len(s))

\* ----------------------------------------------------------- get_api_key
\* the X-API-Key header first, then the api_key query parameter; NoKey: 400
get_api_key(hdr, qry) == IF hdr # NoKey THEN hdr ELSE qry

\* ---------------------------------------------------------------- limiter
\* mutant: the count before the request is compared to the quota
limiter_allows_late(count, quota) == count <= quota

\* slowapi's fixed window: the request is counted, then the count is compared
\* to the quota
limiter_allows(count, quota) == count + 1 <= quota

\* the counter after one more request; counts above quota + 1 are not told
\* apart (every one of them is over quota)
limiter_incr(count, quota) == IF count <= quota THEN count + 1 ELSE count

\* --------------------------------------------------- get_next_healthy_server
\* for _ in range(len(BACKEND_SERVERS)): server = next(healthy_servers) ...
\* `seen` backends have been examined so far, of at most `limit`
RECURSIVE scan(_, _, _, _, _)
scan(pool, health, cur, seen, limit) ==
    IF seen = limit
    THEN [found |-> FALSE, server |-> -1, pos |-> 0, cursor |-> cur, examined |-> seen]
    ELSE LET server == pool[cur]
             nxt == (cur % Len(pool)) + 1
         IN  IF health[server]
             THEN [found |-> TRUE, server |-> server, pos |-> cur, cursor |-> nxt,
                   examined |-> seen + 1]
             ELSE scan(pool, health, nxt, seen + 1, limit)

\* mutant: the iterator is not shared, every call starts at the same place
get_next_healthy_server_restart(pool, health, cur) ==
    [scan(pool, health, cur, 0, Len(pool)) EXCEPT !.cursor = cur]

\* mutant: the cursor advances by one per call, not by one per backend examined
get_next_healthy_server_step(pool, health, cur) ==
    [scan(pool, health, cur, 0, Len(pool)) EXCEPT !.cursor = (cur % Len(pool)) + 1]

\* mutant: the loop runs once too often, range(len(BACKEND_SERVERS) + 1)
get_next_healthy_server_extra(pool, health, cur) ==
    scan(pool, health, cur, 0, Len(pool) + 1)

\* mutant: the health flag is not consulted
get_next_healthy_server_blind(pool, health, cur) ==
    [found |-> TRUE, server |-> pool[cur], pos |-> cur,
     cursor |-> (cur % Len(pool)) + 1, examined |-> 1]

\* mutant: the advance past the backend returned is lost
get_next_healthy_server_lag(pool, health, cur) ==
    LET sel == scan(pool, health, cur, 0, Len(pool))
    IN  [sel EXCEPT !.cursor = IF sel.found THEN sel.pos ELSE sel.cursor]

get_next_healthy_server(pool, health, cur) == scan(pool, health, cur, 0, Len(pool))

\* ------------------------------------------------------------------- Init
\* backends are opaque URLs: a pool of n distinct backends is <<1, .., n>>
Pools(max) == {[i \in 1..n |-> i] : n \in 1..max}

Start(mode, clients, maxPool) ==
    /\ variant \in {"load_balancer", "main"}
    /\ process = "running"
    /\ keys = clients
    /\ observe = mode
    /\ BACKEND_SERVERS \in (IF variant = "load_balancer" THEN Pools(maxPool) ELSE {<<>>})
    /\ BACKEND_SERVERS_ENV = [i \in 1..Len(BACKEND_SERVERS) |->
                                 [pad |-> FALSE, text |-> BACKEND_SERVERS[i]]]
    /\ server_health = [s \in Range(BACKEND_SERVERS) |-> TRUE]
    /\ healthy_servers = 1
    /\ hc = IF variant = "load_balancer" THEN [pc |-> "init", i |-> 0]
            ELSE [pc |-> "none", i |-> 0]
    /\ inflight = EmptyBag
    /\ hits = [k \in Keys |-> 0]
    /\ request = [query |-> <<>>, headers |-> <<>>]
    /\ out = NoOut
    /\ window = [k \in Keys |-> <<>>]
    /\ calls = 0
    /\ everChanged = FALSE
    /\ selHist = <<>>
    /\ timedOut = {}
    /\ reProbed = {}

Init == Start("select", {"k1"}, MaxPool)
InitForward == Start("forward", {"k1"}, MaxPool - 1)
InitLimiter == Start("limiter", Keys, 1)
InitPipeline == Start("limiter", {"k1"}, MaxPool - 1)
InitProbe == Start("probe", {"k1"}, MaxPool - 1)

\* the backends whose flag the step changes
Changed == {s \in DOMAIN server_health : server_health'[s] # server_health[s]}

\* the history of a write of the health registry
HealthHistory(newHealth) ==
    IF observe = "select" /\ newHealth # server_health
    THEN selHist' = <<>> /\ everChanged' = TRUE /\ calls' = 0
    ELSE UNCHANGED selectHistory

\* ------------------------------------------------------------ health_check
\* startup_event: asyncio.create_task(health_check()); the task runs up to
\* its first await, the probe of the first backend
startup_event ==
    /\ hc.pc = "init"
    /\ hc' = [pc |-> "probing", i |-> 1]
    /\ out' = NoOut
    /\ UNCHANGED <<config, server_health, healthy_servers, inflight, hits, window,
                   selectHistory, timeoutHistory>>

\* mutant: every 2xx status counts as healthy
probe_flag_2xx(o) ==
    IF o.exc = "" THEN (IF o.status \in 200..299 THEN "true" ELSE "false")
    ELSE IF IsRequestError(o.exc) THEN "false"
    ELSE "raise"

\* the flag health_check writes for a probe outcome; "raise": the exception
\* is not caught by `except httpx.RequestError`
probe_flag(o) ==
    IF o.exc = "" THEN (IF o.status = 200 THEN "true" ELSE "false")
    ELSE IF IsRequestError(o.exc) THEN "false"
    ELSE "raise"

\* `await client.get(f"{server}/health")` returns or raises
health_check(o) ==
    /\ hc.pc = "probing"
    /\ LET server == BACKEND_SERVERS[hc.i]
           flag == probe_flag(o)
           newHealth == IF flag = "raise" THEN server_health
                        ELSE [server_health EXCEPT ![server] = (flag = "true")]
       IN  /\ server_health' = newHealth
           /\ HealthHistory(newHealth)
           /\ hc' = IF flag = "raise" THEN [pc |-> "dead", i |-> 0]
                    ELSE IF hc.i < PoolSize THEN [pc |-> "probing", i |-> hc.i + 1]
                    ELSE [pc |-> "sleep", i |-> 0]
           /\ reProbed' = IF observe = "forward" /\ flag = "true" /\ server \in timedOut
                          THEN reProbed \cup {server} ELSE reProbed
           /\ out' = Observed([NoOut EXCEPT !.kind = "probe",
                        !.upstream = IF o.exc = "" THEN o.status ELSE -1,
                        !.exc = o.exc, !.server = server, !.changed = Changed])
    /\ UNCHANGED <<config, healthy_servers, inflight, hits, window, timedOut>>

\* asyncio.sleep(HEALTH_CHECK_INTERVAL) returns: the next round starts
health_check_wake ==
    /\ hc.pc = "sleep"
    /\ hc' = [pc |-> "probing", i |-> 1]
    /\ out' = NoOut
    /\ UNCHANGED <<config, server_health, healthy_servers, inflight, hits, window,
                   selectHistory, timeoutHistory>>

\* ----------------------------------------------------------------- limiter
\* the window of a key elapses: its counter is dropped from the storage
window_expire(k) ==
    /\ hc.pc # "init"
    /\ hits[k] > 0
    /\ hits' = [hits EXCEPT ![k] = 0]
    /\ window' = [window EXCEPT ![k] = <<>>]
    /\ out' = NoOut
    /\ UNCHANGED <<config, server_health, healthy_servers, hc, inflight,
                   selectHistory, timeoutHistory>>

\* the limiter's check of a request with this key: counted, then compared
LimiterHit(key) ==
    /\ hits' = [hits EXCEPT ![key] = limiter_incr(@, Quota)]
    /\ window' = [window EXCEPT
                    ![key] = IF Len(@) <= Quota
                             THEN Append(@, limiter_allows(hits[key], Quota)) ELSE @]

\* ------------------------------------------------------------ load_balancer
\* mutant: a timeout does not mark the target unhealthy
forward_result_keep(o) ==
    IF o.exc = ""
    THEN [kind |-> "response", status |-> o.status, demote |-> FALSE]
    ELSE IF IsTimeoutException(o.exc)
    THEN [kind |-> "HTTPException", status |-> 504, demote |-> FALSE]
    ELSE IF IsRequestError(o.exc)
    THEN [kind |-> "HTTPException", status |-> 500, demote |-> TRUE]
    ELSE [kind |-> "unhandled", status |-> 500, demote |-> FALSE]

\* mutant: response.raise_for_status() is called, and the HTTPStatusError of
\* a 5xx response marks the target unhealthy
forward_result_raise(o) ==
    IF o.exc = ""
    THEN (IF o.status >= 400
          THEN [kind |-> "HTTPException", status |-> o.status, demote |-> o.status >= 500]
          ELSE [kind |-> "response", status |-> o.status, demote |-> FALSE])
    ELSE IF IsTimeoutException(o.exc)
    THEN [kind |-> "HTTPException", status |-> 504, demote |-> TRUE]
    ELSE IF IsRequestError(o.exc)
    THEN [kind |-> "HTTPException", status |-> 500, demote |-> TRUE]
    ELSE [kind |-> "unhandled", status |-> 500, demote |-> FALSE]

\* the outcome of `await client.request(...)` in the pooled handler:
\* the response given to the caller and whether the target is marked unhealthy
forward_result(o) ==
    IF o.exc = ""
    THEN [kind |-> "response", status |-> o.status, demote |-> FALSE]
    ELSE LET clause == except_clause(o.exc)
         IN  IF clause = "TimeoutException"
             THEN [kind |-> "HTTPException", status |-> 504, demote |-> TRUE]
             ELSE IF clause = "HTTPStatusError"
             THEN [kind |-> "HTTPException", status |-> o.status, demote |-> FALSE]
             ELSE IF clause = "RequestError"
             THEN [kind |-> "HTTPException", status |-> 500, demote |-> TRUE]
             ELSE [kind |-> "unhandled", status |-> 500, demote |-> FALSE]

\* selections kept in selHist: a window of n - 1 selections, and at least
\* two consecutive ones
HistLen == IF PoolSize > 3 THEN PoolSize - 1 ELSE 2

\* how a backend stands to the timeouts since the last selection
AfterTimeout(server) ==
    IF server \notin timedOut THEN "no"
    ELSE IF server \in reProbed THEN "reProbed" ELSE "timedOut"

\* the history of one get_next_healthy_server call
SelectHistory(sel) ==
    /\ IF observe = "select"
       THEN /\ selHist' = IF sel.found
                          THEN LastN(Append(selHist, sel.pos), HistLen)
                          ELSE selHist
            /\ calls' = IF everChanged THEN 0 ELSE (calls + 1) % PoolSize
            /\ UNCHANGED everChanged
       ELSE UNCHANGED selectHistory
    /\ timedOut' = {}
    /\ reProbed' = {}

\* mutant: the backend is selected before the key is extracted and the
\* request counted, so a rejected request has moved the cursor
load_balancer_select_first(hdr, qry) ==
    /\ IsPooled
    /\ hc.pc # "init"
    /\ UNCHANGED <<config, server_health, hc>>
    /\ LET key == get_api_key(hdr, qry)
           here == [NoOut EXCEPT !.key = key, !.changed = Changed]
           sel == get_next_healthy_server(BACKEND_SERVERS, server_health, healthy_servers)
       IN  /\ healthy_servers' = sel.cursor
           /\ SelectHistory(sel)
           /\ IF key = NoKey
              THEN /\ out' = Observed([here EXCEPT !.kind = "HTTPException", !.status = 400])
                   /\ UNCHANGED <<inflight, hits, window>>
              ELSE /\ LimiterHit(key)
                   /\ IF ~limiter_allows(hits[key], Quota)
                      THEN /\ out' = Observed([here EXCEPT !.kind = "HTTPException",
                                                 !.status = 429])
                           /\ inflight' = inflight
                      ELSE IF sel.found
                      THEN /\ BagCardinality(inflight) < MaxReq
                           /\ inflight' = inflight (+) SetToBag({
                                       [target |-> sel.server,
                                        sent |-> <<sel.server>>, nsel |-> 1]})
                           /\ out' = Observed([here EXCEPT !.kind = "forwarded",
                                        !.server = sel.server, !.nsel = 1, !.nsent = 1])
                      ELSE /\ inflight' = inflight
                           /\ out' = Observed([here EXCEPT !.kind = "HTTPException",
                                        !.status = 503, !.nsel = 1])

\* a request arrives: the limiter's check (key function, then the count), the
\* selection, and the handler up to `await client.request(...)`; at most
\* MaxReq requests await their backend at a time.  `await request.body()`
\* stands between the selection and the call, but the handler reads only its
\* local target_server after it: a flag written during that await is a flag
\* written while the call is awaited
load_balancer(hdr, qry) ==
    /\ IsPooled
    /\ hc.pc # "init"
    /\ UNCHANGED <<config, server_health, hc>>
    /\ LET key == get_api_key(hdr, qry)
           here == [NoOut EXCEPT !.key = key, !.changed = Changed]
       IN  IF key = NoKey
           THEN /\ out' = Observed([here EXCEPT !.kind = "HTTPException", !.status = 400])
                /\ UNCHANGED <<healthy_servers, inflight, hits, window,
                               selectHistory, timeoutHistory>>
           ELSE /\ LimiterHit(key)
                /\ IF ~limiter_allows(hits[key], Quota)
                   THEN /\ out' = Observed([here EXCEPT !.kind = "HTTPException",
                                              !.status = 429])
                        /\ UNCHANGED <<healthy_servers, inflight,
                                       selectHistory, timeoutHistory>>
                   ELSE LET sel == get_next_healthy_server(BACKEND_SERVERS,
                                       server_health, healthy_servers)
                        IN  /\ healthy_servers' = sel.cursor
                            /\ SelectHistory(sel)
                            /\ IF sel.found
                               THEN /\ BagCardinality(inflight) < MaxReq
                                    /\ inflight' = inflight (+) SetToBag({
                                                [target |-> sel.server,
                                                 sent |-> <<sel.server>>, nsel |-> 1]})
                                    /\ out' = Observed([here EXCEPT !.kind = "forwarded",
                                                 !.server = sel.server,
                                                 !.examined = sel.examined,
                                                 !.before = healthy_servers,
                                                 !.after = AfterTimeout(sel.server),
                                                 !.avoided = (timedOut \ reProbed # {}),
                                                 !.nsel = 1, !.nsent = 1])
                               ELSE /\ inflight' = inflight
                                    /\ out' = Observed([here EXCEPT
                                                 !.kind = "HTTPException",
                                                 !.status = 503,
                                                 !.examined = sel.examined,
                                                 !.before = healthy_servers, !.nsel = 1])

\* mutant: after a failure that marks the target unhealthy, the handler
\* selects again and forwards the same request to the backend it gets
load_balancer_resume_retry(e, o) ==
    /\ IsPooled
    /\ e \in InFlight
    /\ LET res == forward_result(o)
           newHealth == IF res.demote THEN [server_health EXCEPT ![e.target] = FALSE]
                        ELSE server_health
           sel == get_next_healthy_server(BACKEND_SERVERS, newHealth, healthy_servers)
           again == res.demote /\ sel.found
       IN  /\ server_health' = newHealth
           /\ HealthHistory(newHealth)
           /\ healthy_servers' = IF res.demote THEN sel.cursor ELSE healthy_servers
           /\ UNCHANGED timeoutHistory
           /\ inflight' = IF again
                          THEN (inflight (-) SetToBag({e})) (+) SetToBag({
                                  [target |-> sel.server,
                                   sent |-> Append(e.sent, sel.server),
                                   nsel |-> e.nsel + 1]})
                          ELSE inflight (-) SetToBag({e})
           /\ out' = IF again
                     THEN Observed([NoOut EXCEPT !.kind = "forwarded",
                                      !.server = sel.server, !.nsel = e.nsel + 1,
                                      !.nsent = Len(e.sent) + 1])
                     ELSE Observed([NoOut EXCEPT !.kind = res.kind, !.status = res.status,
                                      !.upstream = IF o.exc = "" THEN o.status ELSE -1,
                                      !.exc = o.exc, !.server = e.target,
                                      !.changed = Changed,
                                      !.nsel = e.nsel, !.nsent = Len(e.sent)])
    /\ UNCHANGED <<config, hc, hits, window>>

\* mutant: the failure is written under the URL that was requested, a key the
\* registry does not hold (backend number + pool size stands for that URL)
load_balancer_resume_addkey(e, o) ==
    /\ IsPooled
    /\ e \in InFlight
    /\ LET res == forward_result(o)
           newHealth == IF res.demote
                        THEN ((e.target + PoolSize) :> FALSE) @@ server_health
                        ELSE server_health
       IN  /\ server_health' = newHealth
           /\ HealthHistory(newHealth)
           /\ UNCHANGED timeoutHistory
           /\ out' = Observed([NoOut EXCEPT !.kind = res.kind, !.status = res.status,
                        !.upstream = IF o.exc = "" THEN o.status ELSE -1,
                        !.exc = o.exc, !.server = e.target,
                        !.nsel = e.nsel, !.nsent = Len(e.sent)])
    /\ inflight' = inflight (-) SetToBag({e})
    /\ UNCHANGED <<config, healthy_servers, hc, hits, window>>

\* mutant: a response with a status below 500 marks the target healthy
load_balancer_resume_promote(e, o) ==
    /\ IsPooled
    /\ e \in InFlight
    /\ LET res == forward_result(o)
           newHealth == IF res.demote THEN [server_health EXCEPT ![e.target] = FALSE]
                        ELSE IF o.exc = "" /\ o.status < 500
                        THEN [server_health EXCEPT ![e.target] = TRUE]
                        ELSE server_health
       IN  /\ server_health' = newHealth
           /\ HealthHistory(newHealth)
           /\ UNCHANGED timeoutHistory
           /\ out' = Observed([NoOut EXCEPT !.kind = res.kind, !.status = res.status,
                        !.upstream = IF o.exc = "" THEN o.status ELSE -1,
                        !.exc = o.exc, !.server = e.target, !.changed = Changed,
                        !.nsel = e.nsel, !.nsent = Len(e.sent)])
    /\ inflight' = inflight (-) SetToBag({e})
    /\ UNCHANGED <<config, healthy_servers, hc, hits, window>>

\* `await client.request(...)` returns or raises in the pooled handler of
\* the in-flight request e
load_balancer_resume(e, o) ==
    /\ IsPooled
    /\ e \in InFlight
    /\ LET res == forward_result(o)
           newHealth == IF res.demote THEN [server_health EXCEPT ![e.target] = FALSE]
                        ELSE server_health
       IN  /\ server_health' = newHealth
           /\ HealthHistory(newHealth)
           /\ timedOut' = IF observe = "forward" /\ IsTimeoutException(o.exc)
                          THEN timedOut \cup {e.target} ELSE timedOut
           /\ reProbed' = IF IsTimeoutException(o.exc)
                          THEN reProbed \ {e.target} ELSE reProbed
           /\ out' = Observed([NoOut EXCEPT !.kind = res.kind, !.status = res.status,
                        !.upstream = IF o.exc = "" THEN o.status ELSE -1,
                        !.exc = o.exc, !.server = e.target, !.changed = Changed,
                        !.nsel = e.nsel, !.nsent = Len(e.sent)])
    /\ inflight' = inflight (-) SetToBag({e})
    /\ UNCHANGED <<config, healthy_servers, hc, hits, window>>

\* ------------------------------------------------------------------- main.py
AllMethods == {"GET", "POST", "PUT", "DELETE", "PATCH", "OPTIONS", "HEAD"}
\* the routes of main.py in the order of their registration
ROUTES == << [name |-> "proxy", path |-> "*", methods |-> AllMethods],
             [name |-> "health", path |-> "health", methods |-> {"GET"}] >>

route_matches(route, method, path) ==
    /\ route.path = "*" \/ route.path = path
    /\ method \in route.methods

\* the router hands the request to the first route that matches it
dispatch(routes, method, path) ==
    LET hit == {i \in 1..Len(routes) : route_matches(routes[i], method, path)}
    IN  IF hit = {} THEN "none"
        ELSE routes[CHOOSE i \in hit : \A j \in hit : i <= j].name

\* the outcome of `await client.request(...)` in the proxy without a pool
proxy_result(o) ==
    IF o.exc = ""
    THEN [kind |-> "response", status |-> o.status]
    ELSE LET clause == except_clause(o.exc)
         IN  IF clause = "TimeoutException"
             THEN [kind |-> "HTTPException", status |-> 504]
             ELSE IF clause = "HTTPStatusError"
             THEN [kind |-> "HTTPException", status |-> o.status]
             ELSE IF clause = "RequestError"
             THEN [kind |-> "HTTPException", status |-> 500]
             ELSE [kind |-> "unhandled", status |-> 500]

\* a request arrives at main.py: routing, then the route's handler up to its
\* first await (proxy) or to its end (health)
proxy(hdr, qry, method, path) ==
    /\ ~IsPooled
    /\ LET route == dispatch(ROUTES, method, path)
           key == get_api_key(hdr, qry)
           here == [NoOut EXCEPT !.key = key, !.path = path, !.method = method]
       IN  IF route = "health"
           THEN /\ out' = Observed([here EXCEPT !.kind = "static", !.status = 200])
                /\ UNCHANGED <<inflight, hits, window>>
           ELSE IF key = NoKey
           THEN /\ out' = Observed([here EXCEPT !.kind = "HTTPException", !.status = 400])
                /\ UNCHANGED <<inflight, hits, window>>
           ELSE /\ LimiterHit(key)
                /\ IF ~limiter_allows(hits[key], Quota)
                   THEN /\ out' = Observed([here EXCEPT !.kind = "HTTPException",
                                              !.status = 429])
                        /\ inflight' = inflight
                   ELSE /\ BagCardinality(inflight) < MaxReq
                        /\ inflight' = inflight (+) SetToBag({
                                    [target |-> TARGET_SERVER,
                                     sent |-> <<TARGET_SERVER>>, nsel |-> 0]})
                        /\ out' = Observed([here EXCEPT !.kind = "forwarded",
                                     !.server = TARGET_SERVER, !.nsent = 1])
    /\ UNCHANGED <<config, server_health, healthy_servers, hc,
                   selectHistory, timeoutHistory>>

\* `await client.request(...)` returns or raises in the proxy without a pool
proxy_resume(e, o) ==
    /\ ~IsPooled
    /\ e \in InFlight
    /\ LET res == proxy_result(o)
       IN  out' = Observed([NoOut EXCEPT !.kind = res.kind, !.status = res.status,
                     !.upstream = IF o.exc = "" THEN o.status ELSE -1,
                     !.exc = o.exc, !.server = e.target,
                     !.nsel = e.nsel, !.nsent = Len(e.sent)])
    /\ inflight' = inflight (-) SetToBag({e})
    /\ UNCHANGED <<config, server_health, healthy_servers, hc, hits, window,
                   selectHistory, timeoutHistory>>

\* ------------------------------------------------------- the backend pool
\* urlparse(server): the scheme and the netloc of the texts in use
urlparse(text) ==
    CASE text \in {"http://a", "http://b"} ->
            [scheme |-> "http", netloc |-> SubSeq(text, 8, 8)]
      [] text = "http://" -> [scheme |-> "http", netloc |-> ""]
      [] OTHER -> [scheme |-> "", netloc |-> ""]

\* server.strip()
strip(entry) == entry.text

\* mutant: any([result.scheme, result.netloc])
valid_url_any(server) ==
    LET result == urlparse(server)
    IN  result.scheme # "" \/ result.netloc # ""

\* all([result.scheme, result.netloc])
valid_url(server) ==
    LET result == urlparse(server)
    IN  result.scheme # "" /\ result.netloc # ""

\* the module-level code that builds the pool: [error, servers]
load_backends(env) ==
    IF env = <<>> \/ env = <<[pad |-> FALSE, text |-> ""]>>
    THEN [error |-> TRUE, servers |-> <<>>]
    ELSE LET NonEmpty(entry) == strip(entry) # ""
             kept == SelectSeq(env, NonEmpty)
             servers == [i \in 1..Len(kept) |-> strip(kept[i])]
         IN  IF servers = <<>>
             THEN [error |-> TRUE, servers |-> <<>>]
             ELSE IF \E i \in 1..Len(servers) : ~valid_url(servers[i])
             THEN [error |-> TRUE, servers |-> <<>>]
             ELSE [error |-> FALSE, servers |-> servers]

\* the module is loaded: the pool is built, and with it the registry and the
\* iterator, or ValueError ends the process
module_import ==
    /\ process = "import"
    /\ LET loaded == load_backends(BACKEND_SERVERS_ENV)
       IN  IF loaded.error
           THEN /\ process' = "failed"
                /\ UNCHANGED <<BACKEND_SERVERS, server_health>>
           ELSE /\ process' = "running"
                /\ BACKEND_SERVERS' = loaded.servers
                /\ server_health' = [s \in Range(loaded.servers) |-> TRUE]
    /\ healthy_servers' = 1
    /\ out' = NoOut
    /\ UNCHANGED <<variant, BACKEND_SERVERS_ENV, keys, request, observe, hc, inflight,
                   hits, window, selectHistory, timeoutHistory>>

\* the load balancer about to be loaded, BACKEND_SERVERS unset or any list
\* of at most MaxPool entries
InitConfig ==
    /\ variant = "load_balancer"
    /\ process = "import"
    /\ BACKEND_SERVERS_ENV \in UNION {[1..len -> Entries] : len \in 0..MaxPool}
    /\ keys = {"k1"}
    /\ observe = "config"
    /\ BACKEND_SERVERS = <<>>
    /\ server_health = <<>>
    /\ healthy_servers = 1
    /\ hc = [pc |-> "init", i |-> 0]
    /\ inflight = EmptyBag
    /\ hits = [k \in Keys |-> 0]
    /\ request = [query |-> <<>>, headers |-> <<>>]
    /\ out = NoOut
    /\ window = [k \in Keys |-> <<>>]
    /\ calls = 0
    /\ everChanged = FALSE
    /\ selHist = <<>>
    /\ timedOut = {}
    /\ reProbed = {}

NextConfig == module_import

\* ------------------------------------------------- the outbound call's arguments
\* str.lower() of the header names in use
lower(name) ==
    CASE name = "Host" -> "host"
      [] name = "Connection" -> "connection"
      [] name = "Accept-Encoding" -> "accept-encoding"
      [] name = "User-Agent" -> "user-agent"
      [] name = "Referer" -> "referer"
      [] name = "Content-Type" -> "content-type"
      [] OTHER -> name

\* a dict built from a list of items: one entry per key, the item that comes
\* last setting the value (dict(request.query_params) reads the multi-dict's
\* keys() and its [key], the last value of the key; a dict comprehension
\* assigns in the order of the items)
dict(items) ==
    [k \in {items[i][1] : i \in DOMAIN items} |->
        LET last == CHOOSE i \in DOMAIN items :
                        /\ items[i][1] = k
                        /\ \A j \in DOMAIN items : items[j][1] = k => j <= i
        IN  items[last][2]]

\* query_params = dict(request.query_params)
query_params(query) == dict(query)

\* the header names the variant does not forward
DENYLIST ==
    IF variant = "latest"
    THEN {"host", "connection", "accept-encoding", "user-agent", "referer"}
    ELSE {"host", "connection", "accept-encoding"}

\* headers = {key: value for key, value in request.headers.items()
\*            if key.lower() not in (...)}
headers(lines) ==
    LET Kept(line) == lower(line[1]) \notin DENYLIST
    IN  dict(SelectSeq(lines, Kept))

\* the handler prepares the arguments of its outbound call from the inbound
\* request
forward_envelope ==
    /\ out.kind = "none"
    /\ out' = [NoOut EXCEPT !.kind = "outbound",
                            !.params = query_params(request.query),
                            !.headers = headers(request.headers)]
    /\ UNCHANGED <<config, server_health, healthy_servers, hc, inflight, hits, window,
                   selectHistory, timeoutHistory>>

\* one request at a program that is up: its query string, or its headers,
\* any list of at most MaxItems items
InitEnvelope ==
    /\ variant \in {"load_balancer", "main", "latest"}
    /\ process = "running"
    /\ keys = {"k1"}
    /\ observe = "envelope"
    /\ BACKEND_SERVERS = IF variant = "load_balancer" THEN <<1>> ELSE <<>>
    /\ BACKEND_SERVERS_ENV = [i \in 1..Len(BACKEND_SERVERS) |->
                                 [pad |-> FALSE, text |-> BACKEND_SERVERS[i]]]
    /\ server_health = [s \in Range(BACKEND_SERVERS) |-> TRUE]
    /\ healthy_servers = 1
    /\ hc = IF variant = "load_balancer" THEN [pc |-> "sleep", i |-> 0]
            ELSE [pc |-> "none", i |-> 0]
    /\ inflight = EmptyBag
    /\ hits = [k \in Keys |-> 0]
    /\ \/ /\ request \in [query : Lists(QueryKeys, QueryValues, MaxItems),
                           headers : {<<>>}]
       \/ /\ request \in [query : {<<>>},
                           headers : Lists(HeaderNames, HeaderValues, MaxItems)]
    /\ out = NoOut
    /\ window = [k \in Keys |-> <<>>]
    /\ calls = 0
    /\ everChanged = FALSE
    /\ selHist = <<>>
    /\ timedOut = {}
    /\ reProbed = {}

NextEnvelope == forward_envelope

\* ------------------------------------------------------------ specification
KeyValues == keys \cup {NoKey}

Next ==
    \/ startup_event
    \/ \E o \in Returned(ProbeStatuses) \cup Raised : health_check(o)
    \/ health_check_wake
    \/ \E k \in Keys : window_expire(k)
    \/ \E hdr \in KeyValues, qry \in KeyValues : load_balancer(hdr, qry)
    \/ \E e \in InFlight, o \in Returned(Statuses) \cup Raised : load_balancer_resume(e, o)
    \/ \E hdr \in KeyValues, qry \in KeyValues, m \in Methods, p \in Paths :
          proxy(hdr, qry, m, p)
    \/ \E e \in InFlight, o \in Returned(Statuses) \cup Raised : proxy_resume(e, o)

\* the run that records the selections
Spec == Init /\ [][Next]_vars
\* the run that records the outbound calls and their outcomes
SpecForward == InitForward /\ [][Next]_vars
\* the run that records the arrivals, with two API keys in use
SpecLimiter == InitLimiter /\ [][Next]_vars
\* the run that records the arrivals at a pool of several backends
SpecPipeline == InitPipeline /\ [][Next]_vars
\* the run that records the outcomes of the outbound calls, probes included
SpecProbe == InitProbe /\ [][Next]_vars
\* the run that prepares the outbound call of one request
SpecEnvelope == InitEnvelope /\ [][NextEnvelope]_vars
\* the run that loads the load balancer's module
SpecConfig == InitConfig /\ [][NextConfig]_vars

TypeOK ==
    /\ healthy_servers \in 1..MaxPool
    /\ DOMAIN server_health = Range(BACKEND_SERVERS)
    /\ BagCardinality(inflight) <= MaxReq

\* ------------------------------------------------------------------ claims
\* positions of the pool, by the flag of their backend
Positions == 1..PoolSize
UnhealthyPos == {i \in Positions : ~server_health[BACKEND_SERVERS[i]]}
HealthyPos == Positions \ UnhealthyPos
AllHealthy == UnhealthyPos = {}
\* steps from position p forward to position q, around the list
Ahead(p, q) == (q - p + PoolSize - 1) % PoolSize
\* the first healthy position after p, around the list
NextHealthyPos(p) ==
    CHOOSE q \in HealthyPos : \A q2 \in HealthyPos : Ahead(p, q) <= Ahead(p, q2)

\* C1: while every backend has been healthy since startup, the i-th selection
\* (i = 0, 1, ..) returns backend number i mod n and never fails; and in any
\* stretch in which all backends are healthy, each selection returns the
\* list's next backend after the one selected before (period n).
C1_RoundRobin ==
    IsPooled =>
        /\ (~everChanged /\ out.kind = "forwarded") =>
                out.server = BACKEND_SERVERS[((calls + PoolSize - 1) % PoolSize) + 1]
        /\ ~everChanged => out.status # 503
        /\ AllHealthy =>
                \A j \in 1..(Len(selHist) - 1) : selHist[j + 1] = (selHist[j] % PoolSize) + 1

\* three backends, never a flag changed: the selections reached the end of
\* the list and started over
C1_Witness ==
    /\ IsPooled /\ PoolSize = 3 /\ ~everChanged
    /\ selHist = <<3, 1>> /\ out.kind = "forwarded" /\ out.server = 1

\* C2: with exactly one backend marked unhealthy, no selection made since the
\* flags last changed returned it, each selection returned the next healthy
\* backend after the one selected before, and every window of n - 1
\* consecutive selections holds each healthy backend exactly once.
C2_SkipUnhealthy ==
    (IsPooled /\ Cardinality(UnhealthyPos) = 1) =>
        /\ \A j \in 1..Len(selHist) : selHist[j] \in HealthyPos
        /\ out.kind = "forwarded" => server_health[out.server]
        /\ PoolSize >= 2 => out.status # 503
        /\ \A j \in 1..(Len(selHist) - 1) : selHist[j + 1] = NextHealthyPos(selHist[j])
        /\ PoolSize >= 2 =>
             \A a \in 1..(Len(selHist) - PoolSize + 2) :
                /\ {selHist[j] : j \in a..(a + PoolSize - 2)} = HealthyPos
                /\ \A j, l \in a..(a + PoolSize - 2) : selHist[j] = selHist[l] => j = l

\* [1, 2, 3] with 2 marked unhealthy: 3 was selected, then 1
C2_Witness ==
    /\ IsPooled /\ PoolSize = 3 /\ UnhealthyPos = {2}
    /\ selHist = <<3, 1>> /\ out.kind = "forwarded" /\ out.server = 1

\* C3: a selection fails with 503 exactly when every backend is marked
\* unhealthy; it has then examined exactly n backends, has changed no flag,
\* and has left the cursor where it was.
C3_AllUnhealthy ==
    IsPooled =>
        /\ (out.kind = "HTTPException" /\ out.status = 503) =>
                /\ UnhealthyPos = Positions
                /\ out.examined = PoolSize
                /\ out.changed = {}
                /\ healthy_servers = out.before
        /\ UnhealthyPos = Positions => out.kind # "forwarded"

\* three backends all marked unhealthy, the cursor inside the list: 503
C3_Witness ==
    /\ IsPooled /\ PoolSize = 3 /\ UnhealthyPos = Positions
    /\ out.status = 503 /\ out.examined = 3 /\ healthy_servers = 2

\* C4 as stated: a timeout gives 504, and the selection that follows a
\* timeout never returns the backend that timed out, whatever the prober and
\* the other requests did in between.
C4_NextSelectionExcludes ==
    IsPooled =>
        /\ IsTimeoutException(out.exc) => (out.kind = "HTTPException" /\ out.status = 504)
        /\ out.kind = "forwarded" => out.after = "no"

\* C4 amended: a timeout gives 504 and marks the backend unhealthy; the
\* selection that follows never returns it unless a health probe of it has
\* returned 200 since the timeout.
C4_ExcludedUntilProbe ==
    IsPooled =>
        /\ IsTimeoutException(out.exc) =>
                /\ out.kind = "HTTPException" /\ out.status = 504
                /\ ~server_health[out.server]
        /\ out.kind = "forwarded" => out.after # "timedOut"
        /\ \A s \in timedOut \ reProbed : ~server_health[s]

\* a selection that had a timed-out backend to avoid, made while the prober
\* awaits a probe and another request is in flight
C4_Witness ==
    /\ IsPooled /\ PoolSize = 2 /\ out.kind = "forwarded" /\ out.avoided
    /\ hc.pc = "probing" /\ BagCardinality(inflight) = 2

\* C5: pool [A, B] = <<1, 2>>. While no flag has changed the requests are
\* routed A, B, A, B, ..; while A is marked unhealthy and B healthy every
\* request is routed to B; when both are healthy again two consecutive
\* selections take both A and B.
C5_TwoBackends ==
    (IsPooled /\ BACKEND_SERVERS = <<1, 2>>) =>
        /\ (~everChanged /\ out.kind = "forwarded") =>
                out.server = (IF calls = 1 THEN 1 ELSE 2)
        /\ (~server_health[1] /\ server_health[2]) =>
                /\ \A j \in 1..Len(selHist) : selHist[j] = 2
                /\ out.kind = "forwarded" => out.server = 2
                /\ out.status # 503
        /\ (AllHealthy /\ Len(selHist) = 2) => {selHist[1], selHist[2]} = {1, 2}

\* flags have changed, both backends are healthy again, B then A was selected
C5_Witness ==
    /\ IsPooled /\ BACKEND_SERVERS = <<1, 2>> /\ everChanged /\ AllHealthy
    /\ selHist = <<2, 1>> /\ out.server = 1

C7_HealthStatic ==
    (~IsPooled /\ out.kind # "none" /\ out.path = "health" /\ out.method = "GET") =>
        (out.kind = "static" /\ out.status = 200)

\* C8: a response of the backend, whatever its status, is relayed with that
\* status and changes no health flag.
C8_RelayStatus ==
    (IsPooled /\ out.upstream > 0) =>
        /\ out.kind = "response"
        /\ out.status = out.upstream
        /\ out.changed = {}

\* the backend answered 500 and every backend is still marked healthy
C8_Witness ==
    /\ IsPooled /\ out.upstream = 500 /\ out.status = 500 /\ AllHealthy

\* C9: a timeout gives 504, any other request error gives 500; in the load
\* balancer the target, and no other backend, is marked unhealthy; in the
\* proxy without a pool there is no health state to change.
C9_TransportFailure ==
    /\ IsTimeoutException(out.exc) => (out.kind = "HTTPException" /\ out.status = 504)
    /\ (IsRequestError(out.exc) /\ ~IsTimeoutException(out.exc)) =>
            (out.kind = "HTTPException" /\ out.status = 500)
    /\ IsRequestError(out.exc) =>
            IF IsPooled
            THEN ~server_health[out.server] /\ out.changed \subseteq {out.server}
            ELSE out.changed = {} /\ DOMAIN server_health = {}

\* a timeout of one of two healthy backends: 504, and only its flag changed
C9_Witness ==
    /\ IsPooled /\ PoolSize = 2 /\ out.exc = "ReadTimeout" /\ out.status = 504
    /\ out.changed = {out.server} /\ Cardinality(HealthyPos) = 1

\* C10: a request makes at most one selection and one outbound call, to the
\* backend selected for it, also when that call fails.
C10_NoRetry ==
    /\ \A e \in InFlight : e.nsel <= 1 /\ e.sent = <<e.target>>
    /\ out.nsel <= 1 /\ out.nsent <= 1
    /\ out.exc # "" => (out.kind \in {"HTTPException", "unhandled"} /\ out.nsent = 1)

\* the call to one of two backends failed, the other is healthy, and nothing
\* is in flight: the request was not sent again
C10_Witness ==
    /\ IsPooled /\ PoolSize = 2 /\ out.exc = "ConnectError" /\ out.status = 500
    /\ out.nsel = 1 /\ out.nsent = 1 /\ Cardinality(HealthyPos) = 1
    /\ inflight = EmptyBag

\* C11: a request without an API key is answered 400 and a request over
\* quota 429, and the step that rejects it leaves the rotation cursor, every
\* health flag and the set of outbound calls as they were: the key is
\* extracted and the request counted before a backend is selected.  A
\* request without a key is not counted either.
C11_RejectBeforeSelect ==
    [][ /\ (IsPooled /\ out'.kind # "none" /\ out'.key = NoKey) =>
                (out'.kind = "HTTPException" /\ out'.status = 400)
        /\ (IsPooled /\ out'.status = 400) => hits' = hits
        /\ (IsPooled /\ out'.status = 429) => hits[out'.key] >= Quota
        /\ (IsPooled /\ out'.status \in {400, 429}) =>
                /\ healthy_servers' = healthy_servers
                /\ server_health' = server_health
                /\ inflight' = inflight ]_vars

\* two backends, the cursor at the second, one of them marked unhealthy and
\* a request in flight: the fourth request of the key was answered 429
C11_Witness ==
    /\ IsPooled /\ PoolSize = 2 /\ healthy_servers = 2 /\ out.status = 429
    /\ out.key = "k1" /\ Cardinality(UnhealthyPos) = 1 /\ inflight # EmptyBag

\* C12 as stated: after a probe that got a response the backend's flag says
\* whether the status was in 200..299, and after a probe that failed at
\* transport level the flag is false.
C12_Healthy2xx ==
    (IsPooled /\ out.kind = "probe") =>
        /\ out.exc = "" => server_health[out.server] = (out.upstream \in 200..299)
        /\ IsRequestError(out.exc) => ~server_health[out.server]

\* C12 amended: after a probe that got a response the backend's flag says
\* whether the status was exactly 200; any other status, another 2xx too,
\* and any transport failure leave the flag false.
C12_HealthyOnly200 ==
    (IsPooled /\ out.kind = "probe") =>
        /\ out.exc = "" => server_health[out.server] = (out.upstream = 200)
        /\ IsRequestError(out.exc) => ~server_health[out.server]

\* a probe answered 204 has marked a healthy backend unhealthy
C12_Witness ==
    /\ IsPooled /\ out.kind = "probe" /\ out.upstream = 204
    /\ ~server_health[out.server] /\ out.changed = {out.server}

\* the items of a list and the entries of a dict, as bags of <<key, value>>
ItemBag(items) ==
    LET S == {items[i] : i \in DOMAIN items}
    IN  [it \in S |-> Cardinality({i \in DOMAIN items : items[i] = it})]
EntryBag(d) == SetToBag({<<k, d[k]>> : k \in DOMAIN d})

\* C13: the outbound call carries the inbound query items unchanged: the
\* same keys with the same values, each as often as it came in.
C13_QueryUnchanged ==
    out.kind = "outbound" => EntryBag(out.params) = ItemBag(request.query)

\* C14: the outbound headers hold no name that is on the variant's denylist
\* when lower-cased (host and connection in every variant), and every inbound
\* header line with another name is in them under its name with its value.
C14_HeaderDenylist ==
    out.kind = "outbound" =>
        /\ \A n \in DOMAIN out.headers : lower(n) \notin DENYLIST
        /\ \A n \in DOMAIN out.headers : lower(n) \notin {"host", "connection"}
        /\ \A i \in DOMAIN request.headers :
              LET line == request.headers[i]
              IN  lower(line[1]) \notin DENYLIST =>
                      /\ line[1] \in DOMAIN out.headers
                      /\ out.headers[line[1]] = line[2]

\* the entries of BACKEND_SERVERS that are not empty, and the texts with a
\* scheme and a host
FilledEntries == {i \in DOMAIN BACKEND_SERVERS_ENV : BACKEND_SERVERS_ENV[i].text # ""}
WellFormed == {"http://a", "http://b"}
HasMalformed == \E i \in FilledEntries : BACKEND_SERVERS_ENV[i].text \notin WellFormed

\* C15 as stated: a list that is empty, or that has an empty entry or a
\* malformed entry, is fatal: the process does not start and no pool is built.
C15_EmptyEntryFatal ==
    (process # "import"
        /\ (\/ BACKEND_SERVERS_ENV = <<>>
            \/ FilledEntries # DOMAIN BACKEND_SERVERS_ENV
            \/ HasMalformed))
    => (process = "failed" /\ BACKEND_SERVERS = <<>>)

\* C15 amended: the load fails exactly when no entry is left once the empty
\* ones are dropped, or an entry that is not empty is malformed; no pool is
\* built then.  Otherwise the pool is the list of the entries that are not
\* empty, stripped and in their order, each marked healthy.
C15_ConfigFatal ==
    process # "import" =>
        /\ process = "failed" <=> (FilledEntries = {} \/ HasMalformed)
        /\ process = "failed" => (BACKEND_SERVERS = <<>> /\ server_health = <<>>)
        /\ process = "running" =>
              /\ Len(BACKEND_SERVERS) = Cardinality(FilledEntries)
              /\ \A n \in 1..Len(BACKEND_SERVERS) :
                    \E i \in FilledEntries :
                        /\ Cardinality({j \in FilledEntries : j <= i}) = n
                        /\ BACKEND_SERVERS[n] = BACKEND_SERVERS_ENV[i].text
              /\ DOMAIN server_health = Range(BACKEND_SERVERS)
              /\ \A s \in DOMAIN server_health : server_health[s]

\* "http://a,,http://b": the program runs with the pool [a, b]
C15_Witness ==
    /\ process = "running"
    /\ BACKEND_SERVERS_ENV = << [pad |-> FALSE, text |-> "http://a"],
                                [pad |-> FALSE, text |-> ""],
                                [pad |-> FALSE, text |-> "http://b"] >>
    /\ BACKEND_SERVERS = <<"http://a", "http://b">>

\* the positions whose probe the prober has issued and awaits, and the
\* positions whose flag the round in progress has yet to write
Outstanding == IF hc.pc = "probing" THEN {hc.i} ELSE {}
Pending == IF hc.pc = "probing" THEN hc.i..PoolSize ELSE {}

\* C16: within a round no probe waits for another probe to complete: every
\* backend whose flag the round has yet to write has its probe issued.
C16_ProbesIndependent ==
    IsPooled => Pending \subseteq Outstanding

\* C17: once started, the prober is never ended by the outcome of a probe:
\* it is awaiting a probe or asleep until its next round.
C17_ProberNeverStops ==
    (IsPooled /\ hc.pc # "init") => hc.pc \in {"probing", "sleep"}

\* the position k places after position p, around the list
PosAfter(p, k) == ((p - 1 + k) % PoolSize) + 1

\* C18: the cursor is always a position of the list; a selection that
\* examined m backends has moved it by exactly m places, healthy or not; the
\* backends it passed over were marked unhealthy and the backend it returned
\* is the one just before the cursor and is marked healthy at that instant,
\* whatever the prober and the other handlers are in the middle of.
C18_CursorConsistent ==
    IsPooled =>
        /\ healthy_servers \in 1..PoolSize
        /\ out.examined > 0 =>
              /\ out.examined <= PoolSize
              /\ healthy_servers = PosAfter(out.before, out.examined)
              /\ \A k \in 0..(out.examined - 2) :
                    ~server_health[BACKEND_SERVERS[PosAfter(out.before, k)]]
        /\ out.kind = "forwarded" =>
              /\ out.server = BACKEND_SERVERS[PosAfter(out.before, out.examined - 1)]
              /\ server_health[out.server]

\* three backends: a selection passed over one unhealthy backend while two
\* requests are in flight and the prober awaits a probe
C18_Witness ==
    /\ IsPooled /\ PoolSize = 3 /\ out.kind = "forwarded" /\ out.examined = 2
    /\ BagCardinality(inflight) = 2 /\ hc.pc = "probing"

\* C19: the registry holds one boolean for each configured backend and for
\* nothing else, in every state; before the prober has started every flag
\* is true.
C19_RegistryKeys ==
    IsPooled =>
        /\ DOMAIN server_health = Range(BACKEND_SERVERS)
        /\ \A s \in DOMAIN server_health : server_health[s] \in BOOLEAN
        /\ hc.pc = "init" => \A s \in DOMAIN server_health : server_health[s]

\* two backends, both marked unhealthy, the second of them just now by a
\* forwarding failure
C19_Witness ==
    /\ IsPooled /\ PoolSize = 2 /\ UnhealthyPos = Positions
    /\ out.exc = "ConnectError" /\ out.kind = "HTTPException" /\ out.changed = {out.server}

\* C20: a flag goes from unhealthy to healthy only in a step of the prober
\* whose probe of that backend returned 200; the completion of a forwarded
\* request, a successful one too, sets no flag to healthy; and while every
\* backend is marked unhealthy no request is forwarded and the flags stay as
\* they are, until a probe returns 200.
C20_OnlyProbePromotes ==
    [][ IsPooled =>
          /\ \A s \in DOMAIN server_health :
                (~server_health[s] /\ server_health'[s]) =>
                    /\ hc.pc = "probing" /\ BACKEND_SERVERS[hc.i] = s
                    /\ out'.kind = "probe" /\ out'.server = s /\ out'.upstream = 200
          /\ out'.kind \in {"response", "HTTPException", "unhandled"} =>
                \A s \in DOMAIN server_health : server_health'[s] => server_health[s]
          /\ (UnhealthyPos = Positions /\ ~(out'.kind = "probe" /\ out'.upstream = 200)) =>
                /\ server_health' = server_health
                /\ BagCardinality(inflight') <= BagCardinality(inflight) ]_vars

\* a forwarded request was answered 200 by a backend that was marked
\* unhealthy while the request was in flight: every backend is still unhealthy
C20_Witness ==
    /\ IsPooled /\ PoolSize = 2 /\ UnhealthyPos = Positions
    /\ out.kind = "response" /\ out.upstream = 200 /\ ~server_health[out.server]

====
